---------------------------- MODULE Spec2Model ----------------------------
(***************************************************************************)
(* A model of mlmodels/model_tch/textcnn.py: the text normaliser           *)
(* clean_str, the epoch passes _train and _valid, the driver fit and the   *)
(* entry point test().                                                     *)
(*                                                                         *)
(* Strings are tuples of one-character strings.  Floating point values     *)
(* (losses, accuracies) are exact rationals <<numerator, denominator>> in  *)
(* lowest terms with a positive denominator; rounding is not modelled.     *)
(* The parameters of a model are <<instance, steps>>: the instance that    *)
(* was constructed and the number of optimizer steps applied to it since.  *)
(* Data sets are not empty (both passes divide by the data set's size).    *)
(* The lists train_loss, train_acc and test_loss of fit are written and    *)
(* never read; of fit's four lists only test_acc is kept.                  *)
(***************************************************************************)
EXTENDS Integers, Sequences, FiniteSets, TLC

(* ------------------------------ bounds -------------------------------- *)

\* the longest input of clean_str, counted in pieces of Pieces
MaxPieces == 3
\* the largest compute_pars["epochs"]
MaxEpochs == 2
\* the largest training split, in examples
MaxTrain == 2
\* the largest validation split of a run of test(), in examples
MaxValid == 2
\* the largest batch_size and val_batch_size
MaxBatch == 2
\* the largest data set of the two evaluation passes over the same data
MaxExamples == 3

VARIABLES
    cs_arg,     \* clean_str: the argument of the latest call (the raw text at first)
    cs_ret,     \* clean_str: what the latest call returned
    cs_calls,   \* clean_str: the number of calls made so far
    pc,         \* the statement the program is at
    caller,     \* who called the running _valid: "fit", "metric" or "twice"
    conf,       \* the configuration and the sizes of the data sets
    m_params,   \* the model's parameters, <<instance, steps>>
    m_mode,     \* the model's mode, "train" or "eval"
    epoch,      \* fit: the loop variable
    best_test_acc, \* fit: the best validation accuracy so far
    test_acc,   \* fit: the list of the epochs' validation accuracies
    ckpt,       \* the file checkpointdir/best_accuracy
    itr,        \* the iterator of the running pass: its data set's size and batch size
    remaining,  \* the examples the running pass has not been given yet
    corrects,   \* the running pass's count of correct predictions
    loss_sum,   \* the running pass's train_loss / test_loss
    ret,        \* the <<loss, accuracy>> a pass has returned, until its caller has used it
    fwd,        \* the eval-mode forward results of the present parameters, per example seen
    twice_rets, \* what the two evaluation passes over the same data returned
    g_pre,      \* history: the model's parameters and mode when _valid was last called
    g_ok,       \* history: examples of the running pass predicted correctly
    g_loss,     \* history: the sum of the per-example losses of the running pass
    g_passes,   \* history: the passes begun and ended, in order
    g_wrote,    \* history: per finished epoch, whether it wrote the checkpoint
    g_epoch_params, \* history: per finished epoch, the parameters at its end
    g_fit_params    \* history: the parameters when fit returned

cleanVars == <<cs_arg, cs_ret, cs_calls>>

modelVars == <<m_params, m_mode>>

fitVars == <<epoch, best_test_acc, test_acc, ckpt, g_wrote, g_epoch_params, g_fit_params>>

passVars == <<itr, remaining, corrects, loss_sum, g_ok, g_loss>>

vars == <<cs_arg, cs_ret, cs_calls, pc, caller, conf, m_params, m_mode, epoch,
          best_test_acc, test_acc, ckpt, itr, remaining, corrects, loss_sum, ret,
          fwd, twice_rets, g_pre, g_ok, g_loss, g_passes, g_wrote,
          g_epoch_params, g_fit_params>>

(* ------------------------------ clean_str ----------------------------- *)

\* the grave accent, which a string of this language cannot hold
Backtick == "grave"

\* the characters the class [A-Za-z0-9] matches, as far as the inputs use them
AlphaNum == {"a", "n", "s", "t", "v", "e", "r", "d", "l", "0"}

\* the characters the first pattern keeps: [A-Za-z0-9(),!?'] and the grave accent
Whitelist == AlphaNum \cup {"(", ")", ",", "!", "?", "'", Backtick}

\* the characters \s matches, as far as the inputs use them
WhiteSpace == {" ", "\t"}

\* re.sub of every character outside the class by one space
SubOutsideClass(s) == [i \in 1..Len(s) |-> IF s[i] \in Whitelist THEN s[i] ELSE " "]

IsPrefix(p, s) == /\ Len(p) <= Len(s)
                  /\ \A i \in 1..Len(p) : s[i] = p[i]

\* re.sub(pat, repl, s) for a literal pattern: the leftmost non-overlapping
\* occurrences of pat, scanning left to right, each replaced by repl
RECURSIVE ReSub(_, _, _)
ReSub(pat, repl, s) ==
    IF s = <<>> THEN <<>>
    ELSE IF IsPrefix(pat, s)
         THEN repl \o ReSub(pat, repl, SubSeq(s, Len(pat) + 1, Len(s)))
         ELSE <<Head(s)>> \o ReSub(pat, repl, Tail(s))

\* the length of the run of white space s starts with
RECURSIVE SpaceRun(_)
SpaceRun(s) ==
    IF s # <<>> /\ Head(s) \in WhiteSpace THEN 1 + SpaceRun(Tail(s)) ELSE 0

SubSpaceRuns_none(s) == s

\* re.sub(r"\s{2,}", " ", s): each maximal run of two or more white space
\* characters becomes one space; a run of one is left as it is
RECURSIVE SubSpaceRuns(_)
SubSpaceRuns(s) ==
    IF s = <<>> THEN <<>>
    ELSE LET k == SpaceRun(s)
         IN  IF k >= 2 THEN <<" ">> \o SubSpaceRuns(SubSeq(s, k + 1, Len(s)))
             ELSE <<Head(s)>> \o SubSpaceRuns(Tail(s))

RECURSIVE LStrip(_)
LStrip(s) == IF s # <<>> /\ Head(s) \in WhiteSpace THEN LStrip(Tail(s)) ELSE s

RECURSIVE RStrip(_)
RStrip(s) ==
    IF s # <<>> /\ s[Len(s)] \in WhiteSpace THEN RStrip(SubSeq(s, 1, Len(s) - 1)) ELSE s

\* str.strip()
Strip(s) == RStrip(LStrip(s))

\* the replacement strings of the three patterns \( \) \? : in a replacement
\* string Python leaves an escape of a non-letter as it stands, backslash included
ReplOpen  == <<" ", "\\", "(", " ">>
ReplClose == <<" ", "\\", ")", " ">>
ReplQuest == <<" ", "\\", "?", " ">>

clean_str(string) ==
    LET s1  == SubOutsideClass(string)
        s2  == ReSub(<<"'", "s">>, <<" ", "'", "s">>, s1)
        s3  == ReSub(<<"'", "v", "e">>, <<" ", "'", "v", "e">>, s2)
        s4  == ReSub(<<"n", "'", "t">>, <<" ", "n", "'", "t">>, s3)
        s5  == ReSub(<<"'", "r", "e">>, <<" ", "'", "r", "e">>, s4)
        s6  == ReSub(<<"'", "d">>, <<" ", "'", "d">>, s5)
        s7  == ReSub(<<"'", "l", "l">>, <<" ", "'", "l", "l">>, s6)
        s8  == ReSub(<<",">>, <<" ", ",", " ">>, s7)
        s9  == ReSub(<<"!">>, <<" ", "!", " ">>, s8)
        s10 == ReSub(<<"(">>, ReplOpen, s9)
        s11 == ReSub(<<")">>, ReplClose, s10)
        s12 == ReSub(<<"?">>, ReplQuest, s11)
        s13 == SubSpaceRuns(s12)
    IN  Strip(s13)

\* the pieces raw texts are put together from: single characters, among them
\* one outside the whitelist, a backslash and white space, and the contractions
Pieces == { <<"a">>, <<"n">>, <<" ">>, <<"\t">>, <<"#">>, <<"\\">>,
            <<"(">>, <<")">>, <<"?">>, <<",">>, <<"!">>, <<"'">>, <<Backtick>>,
            <<"'", "s">>, <<"'", "v", "e">>, <<"n", "'", "t">>,
            <<"'", "r", "e">>, <<"'", "d">>, <<"'", "l", "l">> }

RECURSIVE Texts(_)
Texts(k) == IF k = 0 THEN { <<>> }
            ELSE LET shorter == Texts(k - 1)
                 IN  shorter \cup { p \o t : p \in Pieces, t \in shorter }

(* ------------------------------ numbers ------------------------------- *)

Abs(n) == IF n < 0 THEN -n ELSE n

Min(a, b) == IF a <= b THEN a ELSE b

RECURSIVE GCD(_, _)
GCD(a, b) == IF b = 0 THEN a ELSE GCD(b, a % b)

\* the rational n/d (d > 0) in lowest terms
Rat(n, d) == LET g == GCD(Abs(n), d) IN <<n \div g, d \div g>>

RatAdd(a, b) == Rat(a[1] * b[2] + b[1] * a[2], a[2] * b[2])

RatLess(a, b) == a[1] * b[2] < b[1] * a[2]

RECURSIVE SumOver(_, _)
\* the sum of f over the finite set S
SumOver(f, S) == IF S = {} THEN 0
                 ELSE LET x == CHOOSE y \in S : TRUE
                      IN  f[x] + SumOver(f, S \ {x})

(* ------------------------- the model and an epoch pass ---------------- *)

\* the cross entropy of one example, as far as the model tells values apart:
\* a lower and a higher one
LossValues == {1, 2}

\* the outcome of the forward pass on one example: whether the class of the
\* largest logit is the label, and the example's cross entropy
Outcomes == [ok : BOOLEAN, loss : LossValues]

\* a function of no argument
NoFwd == [e \in {} |-> 0]

\* optimizer.step(): the parameters change
OptimizerStep(p) == <<p[1], p[2] + 1>>

\* the parameters after one batch of _train: zero_grad, backward, step
TrainBatchParams(p) == OptimizerStep(p)

ValidBatchParams_step(p) == OptimizerStep(p)

\* the parameters after one batch of _valid: a forward pass and nothing else
ValidBatchParams(p) == p

\* F.cross_entropy(logit, target) with its default reduction: the mean of
\* the batch's per-example losses
CrossEntropy(f, batch) == Rat(SumOver(f, batch), Cardinality(batch))

AddCorrects_last(c, k) == k

\* corrects += (result == target).sum()
AddCorrects(c, k) == c + k

\* train_loss /= size and test_loss /= size
EpochLoss(total, size) == Rat(total[1], total[2] * size)

\* accuracy = 100.0 * corrects / size
Accuracy(c, size) == Rat(100 * c, size)

\* the batches an iterator may give next: any batch_size of the examples it
\* has left in any order (it shuffles on every pass), or all that are left
Batches(rem, bs) == { b \in SUBSET rem : Cardinality(b) = Min(bs, Cardinality(rem)) }

\* _train up to its loop: m.train() and the two accumulators
TrainEnter == /\ m_mode' = "train"
              /\ itr' = [n |-> conf.ntrain, bs |-> conf.batch_size]
              /\ remaining' = 1..conf.ntrain
              /\ corrects' = 0
              /\ loss_sum' = <<0, 1>>
              /\ g_ok' = 0
              /\ g_loss' = 0
              /\ g_passes' = Append(g_passes, "train_begin")

\* one iteration of the loop of _train
TrainBatch ==
    /\ pc = "train_loop"
    /\ remaining # {}
    /\ \E batch \in Batches(remaining, itr.bs) :
       \E f \in [batch -> Outcomes] :
          LET right == { e \in batch : f[e].ok }
              loss  == CrossEntropy([e \in batch |-> f[e].loss], batch)
          IN  /\ m_params' = TrainBatchParams(m_params)
              /\ loss_sum' = RatAdd(loss_sum, loss)
              /\ corrects' = AddCorrects(corrects, Cardinality(right))
              /\ remaining' = remaining \ batch
              /\ g_ok' = g_ok + Cardinality(right)
              /\ g_loss' = g_loss + SumOver([e \in batch |-> f[e].loss], batch)
    /\ fwd' = NoFwd
    /\ UNCHANGED <<cleanVars, pc, caller, conf, m_mode, fitVars, itr, ret,
                   twice_rets, g_pre, g_passes>>

\* the end of _train: the loop is over, the two results are returned
TrainEnd ==
    /\ pc = "train_loop"
    /\ remaining = {}
    /\ ret' = <<EpochLoss(loss_sum, itr.n), Accuracy(corrects, itr.n)>>
    /\ g_passes' = Append(g_passes, "train_end")
    /\ pc' = "train_ret"
    /\ UNCHANGED <<cleanVars, caller, conf, modelVars, fitVars, passVars, fwd,
                   twice_rets, g_pre>>

\* the iterator _valid is called with, by the place of the call
ValidItr == IF pc = "train_ret"
            THEN [n |-> conf.nvalid, bs |-> conf.val_batch_size]
            ELSE IF pc = "metric_call"
                 THEN [n |-> conf.ntrain, bs |-> conf.batch_size]
                 ELSE [n |-> conf.nvalid, bs |-> conf.val_batch_size]

ValidCaller == IF pc = "train_ret" THEN "fit"
               ELSE IF pc = "metric_call" THEN "metric" ELSE "twice"

\* a call of _valid up to its loop: m.eval() and the two accumulators
ValidBegin ==
    /\ pc \in {"train_ret", "metric_call", "twice_call"}
    /\ caller' = ValidCaller
    /\ g_pre' = <<m_params, m_mode>>
    /\ m_mode' = "eval"
    /\ itr' = ValidItr
    /\ remaining' = 1..ValidItr.n
    /\ corrects' = 0
    /\ loss_sum' = <<0, 1>>
    /\ g_ok' = 0
    /\ g_loss' = 0
    /\ g_passes' = Append(g_passes, "valid_begin")
    /\ ret' = <<>>
    /\ pc' = "valid_loop"
    /\ UNCHANGED <<cleanVars, conf, m_params, fitVars, fwd, twice_rets>>

\* one iteration of the loop of _valid.  Without dropout the outcome of an
\* example is a function of the parameters: fwd keeps what has been seen
\* of it, and an example met again has the outcome it had.
ValidBatch ==
    /\ pc = "valid_loop"
    /\ remaining # {}
    /\ \E batch \in Batches(remaining, itr.bs) :
       \E new \in [batch \ DOMAIN fwd -> Outcomes] :
          LET f     == [e \in batch |-> IF e \in DOMAIN fwd THEN fwd[e] ELSE new[e]]
              right == { e \in batch : f[e].ok }
              loss  == CrossEntropy([e \in batch |-> f[e].loss], batch)
          IN  /\ fwd' = [e \in DOMAIN fwd \cup batch |->
                            IF e \in DOMAIN fwd THEN fwd[e] ELSE new[e]]
              /\ m_params' = ValidBatchParams(m_params)
              /\ loss_sum' = RatAdd(loss_sum, loss)
              /\ corrects' = AddCorrects(corrects, Cardinality(right))
              /\ remaining' = remaining \ batch
              /\ g_ok' = g_ok + Cardinality(right)
              /\ g_loss' = g_loss + SumOver([e \in batch |-> f[e].loss], batch)
    /\ UNCHANGED <<cleanVars, pc, caller, conf, m_mode, fitVars, itr, ret,
                   twice_rets, g_pre, g_passes>>

\* the end of _valid
ValidEnd ==
    /\ pc = "valid_loop"
    /\ remaining = {}
    /\ ret' = <<EpochLoss(loss_sum, itr.n), Accuracy(corrects, itr.n)>>
    /\ g_passes' = Append(g_passes, "valid_end")
    /\ pc' = "valid_ret"
    /\ UNCHANGED <<cleanVars, caller, conf, modelVars, fitVars, passVars, fwd,
                   twice_rets, g_pre>>

(* ------------------------------ fit ----------------------------------- *)

InRange_short(e, n) == e < n

\* for epoch in range(1, epochs + 1): whether the loop variable is in the range
InRange(e, n) == e <= n

Improved_tie(acc, best) == ~RatLess(acc, best)

\* if ts_acc > best_test_acc
Improved(acc, best) == RatLess(best, acc)

BestAfter_keep(acc, best) == best

\* best_test_acc = ts_acc
BestAfter(acc, best) == acc

\* model.state_dict() as torch.save writes it: the parameters of the moment
StateDict(p) == p

\* fit up to its loop
FitBegin ==
    /\ pc = "test_fit"
    /\ best_test_acc' = <<-1, 1>>
    /\ test_acc' = <<>>
    /\ epoch' = 1
    /\ pc' = "fit_loop"
    /\ UNCHANGED <<cleanVars, caller, conf, modelVars, ckpt, passVars, ret, fwd,
                   twice_rets, g_pre, g_passes, g_wrote, g_epoch_params,
                   g_fit_params>>

\* the head of the loop with epochs left: _train is called
TrainBegin ==
    /\ pc = "fit_loop"
    /\ InRange(epoch, conf.epochs)
    /\ TrainEnter
    /\ pc' = "train_loop"
    /\ UNCHANGED <<cleanVars, caller, conf, m_params, fitVars, ret, fwd,
                   twice_rets, g_pre>>

\* the rest of the loop's body once _valid has returned: the comparison with
\* the best accuracy, the checkpoint, the appends
FitCheck ==
    /\ pc = "valid_ret"
    /\ caller = "fit"
    /\ LET ts_acc == ret[2]
       IN  /\ IF Improved(ts_acc, best_test_acc)
              THEN /\ best_test_acc' = BestAfter(ts_acc, best_test_acc)
                   /\ ckpt' = StateDict(m_params)
                   /\ g_wrote' = Append(g_wrote, TRUE)
              ELSE /\ UNCHANGED <<best_test_acc, ckpt>>
                   /\ g_wrote' = Append(g_wrote, FALSE)
           /\ test_acc' = Append(test_acc, ts_acc)
    /\ g_epoch_params' = Append(g_epoch_params, m_params)
    /\ epoch' = epoch + 1
    /\ ret' = <<>>
    /\ pc' = "fit_loop"
    /\ UNCHANGED <<cleanVars, caller, conf, modelVars, passVars, fwd,
                   twice_rets, g_pre, g_passes, g_fit_params>>

\* the head of the loop with no epoch left: fit returns
FitReturn ==
    /\ pc = "fit_loop"
    /\ ~InRange(epoch, conf.epochs)
    /\ g_fit_params' = m_params
    /\ pc' = "test_metrics"
    /\ UNCHANGED <<cleanVars, caller, conf, modelVars, epoch, best_test_acc,
                   test_acc, ckpt, passVars, ret, fwd, twice_rets, g_pre,
                   g_passes, g_wrote, g_epoch_params>>

(* ------------------------------ test() -------------------------------- *)

\* Model(vocab_built=vocab, **model_pars): a new instance, in train mode
NewModel(p) == <<p[1] + 1, 0>>

\* after fit: the data set is read again and model is bound to a new Model
Metrics ==
    /\ pc = "test_metrics"
    /\ m_params' = NewModel(m_params)
    /\ m_mode' = "train"
    /\ fwd' = NoFwd
    /\ pc' = "metric_call"
    /\ UNCHANGED <<cleanVars, caller, conf, fitVars, passVars, ret, twice_rets,
                   g_pre, g_passes>>

\* metric has returned: the loss and the accuracy are printed
TestEnd ==
    /\ pc = "valid_ret"
    /\ caller = "metric"
    /\ pc' = "done"
    /\ UNCHANGED <<cleanVars, caller, conf, modelVars, fitVars, passVars, ret,
                   fwd, twice_rets, g_pre, g_passes>>

(* ------------------------------ specifications ------------------------ *)

\* the part of the state clean_str does not touch, while it runs
NoProgram ==
    /\ pc = "idle" /\ caller = "none"
    /\ conf = [epochs |-> 0, ntrain |-> 1, nvalid |-> 1, batch_size |-> 1,
               val_batch_size |-> 1]
    /\ m_params = <<1, 0>> /\ m_mode = "train"
    /\ epoch = 1 /\ best_test_acc = <<-1, 1>> /\ test_acc = <<>>
    /\ ckpt = "absent"
    /\ itr = [n |-> 1, bs |-> 1] /\ remaining = {} /\ corrects = 0
    /\ loss_sum = <<0, 1>> /\ ret = <<>> /\ fwd = NoFwd /\ twice_rets = <<>>
    /\ g_pre = <<>> /\ g_ok = 0 /\ g_loss = 0 /\ g_passes = <<>>
    /\ g_wrote = <<>> /\ g_epoch_params = <<>> /\ g_fit_params = <<>>

NoText == cs_arg = <<>> /\ cs_ret = <<>> /\ cs_calls = 0

\* test() as it is about to call fit: the configuration is read, the data
\* sets are split and the first Model is constructed
Init ==
    /\ NoText
    /\ pc = "test_fit" /\ caller = "none"
    /\ conf \in [epochs : 0..MaxEpochs, ntrain : 1..MaxTrain, nvalid : 1..MaxValid,
                 batch_size : 1..MaxBatch, val_batch_size : 1..MaxBatch]
    /\ m_params = <<1, 0>> /\ m_mode = "train"
    /\ epoch = 1 /\ best_test_acc = <<-1, 1>> /\ test_acc = <<>>
    /\ ckpt \in {"absent", "stale"}
    /\ itr = [n |-> 1, bs |-> 1] /\ remaining = {} /\ corrects = 0
    /\ loss_sum = <<0, 1>> /\ ret = <<>> /\ fwd = NoFwd /\ twice_rets = <<>>
    /\ g_pre = <<>> /\ g_ok = 0 /\ g_loss = 0 /\ g_passes = <<>>
    /\ g_wrote = <<>> /\ g_epoch_params = <<>> /\ g_fit_params = <<>>

Next == \/ FitBegin
        \/ TrainBegin
        \/ TrainBatch
        \/ TrainEnd
        \/ ValidBegin
        \/ ValidBatch
        \/ ValidEnd
        \/ FitCheck
        \/ FitReturn
        \/ Metrics
        \/ TestEnd

Spec == Init /\ [][Next]_vars

\* clean_str, called on a raw text and then on what it returned
InitClean == /\ cs_arg \in Texts(MaxPieces)
             /\ cs_ret = <<>>
             /\ cs_calls = 0
             /\ NoProgram

\* one call of clean_str: on the raw text first, on its own output afterwards
CleanCall == /\ cs_calls < 2
             /\ cs_arg' = IF cs_calls = 0 THEN cs_arg ELSE cs_ret
             /\ cs_ret' = clean_str(cs_arg')
             /\ cs_calls' = cs_calls + 1
             /\ UNCHANGED <<pc, caller, conf, modelVars, fitVars, passVars, ret,
                            fwd, twice_rets, g_pre, g_passes>>

NextClean == CleanCall

SpecClean == InitClean /\ [][NextClean]_vars

\* _valid, called twice with the same model and the same iterator
InitTwice ==
    /\ NoText
    /\ pc = "twice_call" /\ caller = "none"
    /\ conf \in [epochs : {0}, ntrain : {1}, nvalid : 1..MaxExamples,
                 batch_size : {1}, val_batch_size : 1..MaxExamples]
    /\ m_params = <<1, 0>> /\ m_mode \in {"train", "eval"}
    /\ epoch = 1 /\ best_test_acc = <<-1, 1>> /\ test_acc = <<>>
    /\ ckpt = "absent"
    /\ itr = [n |-> 1, bs |-> 1] /\ remaining = {} /\ corrects = 0
    /\ loss_sum = <<0, 1>> /\ ret = <<>> /\ fwd = NoFwd /\ twice_rets = <<>>
    /\ g_pre = <<>> /\ g_ok = 0 /\ g_loss = 0 /\ g_passes = <<>>
    /\ g_wrote = <<>> /\ g_epoch_params = <<>> /\ g_fit_params = <<>>

\* a call of the two has returned: its result is kept, the next call follows
TwiceNext ==
    /\ pc = "valid_ret"
    /\ caller = "twice"
    /\ twice_rets' = Append(twice_rets, ret)
    /\ ret' = <<>>
    /\ pc' = IF Len(twice_rets) + 1 < 2 THEN "twice_call" ELSE "done"
    /\ UNCHANGED <<cleanVars, caller, conf, modelVars, fitVars, passVars, fwd,
                   g_pre, g_passes>>

NextTwice == \/ ValidBegin
             \/ ValidBatch
             \/ ValidEnd
             \/ TwiceNext

SpecTwice == InitTwice /\ [][NextTwice]_vars

(* ------------------------------ properties ---------------------------- *)

\* C1: an epoch of fit writes the checkpoint if and only if its validation
\* accuracy is strictly greater than that of every earlier epoch of the run;
\* an epoch that ties the best writes nothing, and the first epoch writes.
C1_WritesIffStrictlyBest ==
    /\ Len(g_wrote) = Len(test_acc)
    /\ \A e \in 1..Len(g_wrote) :
          g_wrote[e] <=> (\A j \in 1..(e - 1) : RatLess(test_acc[j], test_acc[e]))

\* the first epoch wrote, the second tied it and wrote nothing
C1_Witness ==
    /\ Len(g_wrote) >= 2
    /\ g_wrote[1] /\ ~g_wrote[2]
    /\ test_acc[1] = test_acc[2]

\* C2: clean_str is idempotent: called on its own output, it returns that
\* output unchanged.
C2_Idempotent == cs_calls = 2 => cs_ret = cs_arg

\* the second call was given, and returned, a text with a contraction, a
\* backslash and a question mark, made from a text with a character outside
\* the whitelist
C2_Witness ==
    /\ cs_calls = 2
    /\ cs_arg = <<"n", "'", "t", " ", "\\", "?">>
    /\ cs_ret = cs_arg

\* the characters C3 allows in the output of clean_str
C3_Allowed == AlphaNum \cup {"(", ")", ",", "!", "?", "'", Backtick, " "}

\* C3: the output of clean_str holds only alphanumeric characters, the
\* whitelisted punctuation and single spaces: no other character (a
\* backslash, say), no two adjacent white space characters, and no white
\* space at either end.
C3_OutputAlphabet ==
    cs_calls >= 1 =>
        /\ \A i \in 1..Len(cs_ret) : cs_ret[i] \in C3_Allowed
        /\ \A i \in 1..(Len(cs_ret) - 1) :
              ~(cs_ret[i] \in WhiteSpace /\ cs_ret[i + 1] \in WhiteSpace)
        /\ cs_ret # <<>> => (cs_ret[1] \notin WhiteSpace /\ cs_ret[Len(cs_ret)] \notin WhiteSpace)

\* C4 as stated: when _valid returns, the model's parameters and its
\* train/eval mode are what they were when it was called.
C4_ValidLeavesModelAsItWas ==
    pc = "valid_ret" => <<m_params, m_mode>> = g_pre

\* C4 as amended: during and after _valid the model's parameters are what
\* they were when it was called, and the model is in eval mode, whatever mode
\* it was called in.
C4_ValidKeepsParameters ==
    pc \in {"valid_loop", "valid_ret"} => (m_params = g_pre[1] /\ m_mode = "eval")

\* _valid, called in train mode, has returned after more than one batch
C4_Witness ==
    /\ pc = "valid_ret"
    /\ g_pre[2] = "train"
    /\ itr.n > itr.bs
    /\ m_params[2] > 0

\* C5: with the parameters fixed, two calls of _valid over the same iterator
\* return the same loss and the same accuracy, however the iterator orders
\* and groups the examples on each pass.
C5_SameResultTwice ==
    Len(twice_rets) = 2 => twice_rets[1] = twice_rets[2]

\* the examples a finished pass predicted correctly: for _valid from the
\* forward results, for _train from the history
CorrectCount ==
    IF pc = "valid_ret" THEN Cardinality({ e \in DOMAIN fwd : fwd[e].ok }) ELSE g_ok

\* C6: the accuracy a pass of _train or _valid returns is 100 times the
\* number of correctly predicted examples over the data set's size, and lies
\* in [0, 100].
C6_Accuracy ==
    pc \in {"train_ret", "valid_ret"} =>
        /\ ret[2] = Rat(100 * CorrectCount, itr.n)
        /\ ret[2][1] >= 0
        /\ ret[2][1] <= 100 * ret[2][2]

\* a pass of _valid over several batches returned an accuracy strictly
\* between 0 and 100
C6_Witness ==
    /\ pc = "valid_ret"
    /\ itr.n > itr.bs
    /\ ret[2][1] > 0
    /\ ret[2][1] < 100 * ret[2][2]

\* the passes of a run of fit with n epochs, in order
RECURSIVE PassPattern(_)
PassPattern(n) ==
    IF n = 0 THEN <<>>
    ELSE PassPattern(n - 1) \o <<"train_begin", "train_end", "valid_begin", "valid_end">>

\* C7: fit with epochs = N runs exactly N training passes and N evaluation
\* passes, strictly alternating and each ended before the next begins, then
\* returns; it stops nowhere before.
C7_PassesAlternate ==
    /\ g_fit_params = <<>> => IsPrefix(g_passes, PassPattern(conf.epochs))
    /\ pc = "test_metrics" => g_passes = PassPattern(conf.epochs)
    /\ pc # "done" => ENABLED Next

\* fit has returned from a run of more than one epoch
C7_Witness ==
    /\ pc = "test_metrics"
    /\ conf.epochs >= 2
    /\ Len(g_passes) = 4 * conf.epochs

\* C8: the loss a pass returns is the mean of the per-example cross entropies
\* of the examples of the epoch, whatever the batch size.
C8_LossIsExampleMean ==
    pc \in {"train_ret", "valid_ret"} => ret[1] = Rat(g_loss, itr.n)

\* the earliest epoch whose accuracy is the largest of accs
EarliestBest(accs) ==
    CHOOSE e \in 1..Len(accs) :
        /\ \A j \in 1..Len(accs) : ~RatLess(accs[e], accs[j])
        /\ \A j \in 1..(e - 1) : RatLess(accs[j], accs[e])

\* C9: once the first epoch has finished, the checkpoint file holds the
\* parameters of the end of the earliest epoch whose validation accuracy is
\* the largest so far; a run of no epoch writes no checkpoint.
C9_CheckpointIsEarliestBest ==
    /\ Len(test_acc) >= 1 => ckpt = g_epoch_params[EarliestBest(test_acc)]
    /\ conf.epochs = 0 => ckpt \in {"absent", "stale"}

\* test() is over, the second epoch tied the first, and the file holds the
\* parameters of the end of the first
C9_Witness ==
    /\ pc = "done"
    /\ Len(test_acc) >= 2
    /\ test_acc[1] = test_acc[2]
    /\ EarliestBest(test_acc) = 1
    /\ ckpt = g_epoch_params[1]
    /\ ckpt # g_epoch_params[2]

\* C10: in test(), the model whose loss and accuracy are computed at the end
\* has the parameters the call of fit before it produced (stated for the
\* runs of at least one epoch, in which fit has trained the model).
C10_MetricsOfTrainedModel ==
    (conf.epochs >= 1 /\ caller = "metric" /\ pc \in {"valid_loop", "valid_ret", "done"})
        => m_params = g_fit_params

=============================================================================
